---- MODULE Spec2Model ----
(***************************************************************************)
(* PO / Invoice discrepancy detector (discrepancy_detector.py).            *)
(*                                                                         *)
(* The model covers normalize_columns, find_discrepancies and the request  *)
(* flow of home().  A DataFrame is a record [columns, rows]: columns is    *)
(* the sequence of column labels, rows the sequence of rows, each row a    *)
(* sequence of cell values aligned with columns.  A DataFrame handed to a  *)
(* function is a mutable object: po_df / invoice_df hold the object's      *)
(* current content, po_in / invoice_in what the caller handed over.        *)
(***************************************************************************)
EXTENDS Integers, Sequences, FiniteSets, TLC

VARIABLES
    po_df,          \* the PO DataFrame object (shared with the caller)
    invoice_df,     \* the Invoice DataFrame object (shared with the caller)
    po_in,          \* content of the PO table when it was handed over
    invoice_in,     \* content of the Invoice table when it was handed over
    pc,             \* position inside find_discrepancies
    i,              \* index of the next PO row of the iterrows() loop
    discrepancies,  \* the list built by find_discrepancies
    iter,           \* per PO row already iterated: what the loop body did
    report,         \* the rows of the DataFrame find_discrepancies returned
    h_pc,           \* position inside home()
    request,        \* the HTTP request home() serves
    error,          \* home(): local variable error
    excel_filename, \* home(): local variable excel_filename
    pdf_filename,   \* home(): local variable pdf_filename
    files,          \* report files completely written in the upload folder
    response        \* what the rendered template shows

engine_vars == <<po_df, invoice_df, po_in, invoice_in, pc, i, discrepancies, iter, report>>
home_vars == <<h_pc, request, error, excel_filename, pdf_filename, files, response>>
vars == <<po_df, invoice_df, po_in, invoice_in, pc, i, discrepancies, iter, report,
          h_pc, request, error, excel_filename, pdf_filename, files, response>>

----------------------------------------------------------------------------
(* Bounds of the model *)

MaxRows == 2
MaxCols == 2

----------------------------------------------------------------------------
(* Python values.  Every value is a record of one shape, so that values of *)
(* different Python types can be compared.                                 *)

\* a str
Str(s) == [t |-> "str", s |-> s, n |-> 0]
\* an int / float
Num(n) == [t |-> "num", s |-> "", n |-> n]
\* float('nan'): what pandas.read_excel stores for a blank cell
NaN == [t |-> "nan", s |-> "", n |-> 0]
\* None: what Series.get / DataFrame.get return for an absent label
None == [t |-> "none", s |-> "", n |-> 0]

\* Python ==  (nan compares unequal to everything, itself included)
PyEq(a, b) == a.t # "nan" /\ b.t # "nan" /\ a = b

\* Python truth value, as used by "not po_number"
Truthy(v) ==
    CASE v.t = "str" -> v.s # ""
      [] v.t = "num" -> v.n # 0
      [] v.t = "nan" -> TRUE
      [] OTHER -> FALSE

\* str(c) of a column label
PyStr(c) ==
    CASE c.t = "str" -> c.s
      [] c.t = "num" -> (CASE c.n = 0 -> "0" [] c.n = 1 -> "1" [] c.n = 2 -> "2" [] OTHER -> "9")
      [] c.t = "nan" -> "nan"
      [] OTHER -> "None"

\* str.lower() on the header texts of the model
Lower(s) ==
    CASE s = "PO Number" -> "po number"
      [] s = "PO NUMBER" -> "po number"
      [] s = "PO ID" -> "po id"
      [] s = "Vendor" -> "vendor"
      [] s = "Supplier" -> "supplier"
      [] s = "Amount" -> "amount"
      [] s = "None" -> "none"
      [] OTHER -> s

Range(f) == {f[k] : k \in DOMAIN f}

----------------------------------------------------------------------------
(* normalize_columns *)

COLUMN_MAP ==
    << [std |-> "po number", variants |-> <<"po number", "po id", "po detail", "purchase order">>],
       [std |-> "invoice number", variants |-> <<"invoice number", "inv no", "invoice id">>],
       [std |-> "vendor", variants |-> <<"vendor", "supplier", "vendor name", "supplier name">>],
       [std |-> "total amount", variants |-> <<"total amount", "amount", "total">>],
       [std |-> "quantity", variants |-> <<"quantity", "qty">>],
       [std |-> "currency", variants |-> <<"currency", "curr">>] >>

\* df_cols = [str(c).lower() for c in df.columns]
DfCols(df) == [k \in DOMAIN df.columns |-> Lower(PyStr(df.columns[k]))]

\* A mutation of FirstVariant: the last listed variant found wins.
LastVariant(variants, df_cols) ==
    LET hit == {k \in DOMAIN variants : variants[k] \in Range(df_cols)}
    IN  IF hit = {} THEN 0 ELSE CHOOSE k \in hit : \A j \in hit : j <= k

\* "for v in variants: if v in df_cols: ...; break": index of the first variant
\* found among the lower-cased labels, 0 when there is none
FirstVariant(variants, df_cols) ==
    LET hit == {k \in DOMAIN variants : variants[k] \in Range(df_cols)}
    IN  IF hit = {} THEN 0 ELSE CHOOSE k \in hit : \A j \in hit : k <= j

\* the dict new_cols, as the set of its (key, value) pairs
NewCols(df) ==
    { <<COLUMN_MAP[m].variants[FirstVariant(COLUMN_MAP[m].variants, DfCols(df))], COLUMN_MAP[m].std>> :
        m \in {m \in DOMAIN COLUMN_MAP : FirstVariant(COLUMN_MAP[m].variants, DfCols(df)) # 0} }

\* df.rename(columns=new_cols): a label equal to a key is replaced, others stay
Rename(df, new_cols) ==
    [df EXCEPT !.columns =
        [k \in DOMAIN df.columns |->
            LET c == df.columns[k]
            IN  IF c.t = "str" /\ \E p \in new_cols : p[1] = c.s
                THEN Str((CHOOSE p \in new_cols : p[1] = c.s)[2])
                ELSE c]]

\* the content of df after normalize_columns(df); df is changed in place
normalize_columns(df) == Rename(df, NewCols(df))

----------------------------------------------------------------------------
(* find_discrepancies *)

HasColumn(df, name) == \E k \in DOMAIN df.columns : df.columns[k] = Str(name)

\* row.get(name) for a row of df: the cell under the label name, None when
\* df has no such label
Get(df, row, name) ==
    IF HasColumn(df, name)
    THEN row[CHOOSE k \in DOMAIN df.columns : df.columns[k] = Str(name)]
    ELSE None

\* the columns compared for a matched pair, in the order of the for loop
CompareCols == <<"total amount", "vendor", "quantity", "currency">>

NoMatchEntry(po_number) == [PO_Number |-> po_number, Issue |-> "No matching invoice"]

FieldEntry(po_number, col, po_value, inv_value) ==
    [PO_Number |-> po_number, Field |-> col, PO_Value |-> po_value, Invoice_Value |-> inv_value]

Sentinel == [Message |-> "No discrepancies found!"]

\* the po number of the PO row the loop is at
PoNumberAt(k) == Get(po_df, po_df.rows[k], "po number")

\* invoice_df[invoice_df.get('po number') == po_number]: the indices of the
\* selected Invoice rows (the boolean mask is elementwise Python ==)
MatchedRows(df, po_number) ==
    {r \in DOMAIN df.rows : PyEq(Get(df, df.rows[r], "po number"), po_number)}

\* matched.iloc[0]: the first selected row, in table order
FirstMatched(df, po_number) ==
    CHOOSE r \in MatchedRows(df, po_number) : \A q \in MatchedRows(df, po_number) : r <= q

\* Python != of the two cells
PyNe(a, b) == ~PyEq(a, b)

\* the entries the inner for loop appends for PO row po_row and Invoice row inv,
\* from column number k on
RECURSIVE FieldDiffs(_, _, _, _)
FieldDiffs(po_row, inv, po_number, k) ==
    IF k > Len(CompareCols) THEN <<>>
    ELSE LET col == CompareCols[k]
             pv == Get(po_df, po_row, col)
             iv == Get(invoice_df, inv, col)
         IN  (IF PyNe(pv, iv) THEN <<FieldEntry(po_number, col, pv, iv)>> ELSE <<>>)
             \o FieldDiffs(po_row, inv, po_number, k + 1)

\* A mutation of Report: the list is returned as it is, the empty one too.
ReportNoSentinel(d) == d

\* the rows of the DataFrame of the return statement
Report(d) == IF d # <<>> THEN d ELSE <<Sentinel>>

\* po_df = normalize_columns(po_df)
NormalizePO ==
    /\ pc = "normalize_po"
    /\ po_df' = normalize_columns(po_df)
    /\ pc' = "normalize_invoice"
    /\ UNCHANGED <<invoice_df, po_in, invoice_in, i, discrepancies, iter, report>>
    /\ UNCHANGED home_vars

\* invoice_df = normalize_columns(invoice_df); discrepancies = []
NormalizeInvoice ==
    /\ pc = "normalize_invoice"
    /\ invoice_df' = normalize_columns(invoice_df)
    /\ discrepancies' = <<>>
    /\ i' = 1
    /\ pc' = "loop"
    /\ UNCHANGED <<po_df, po_in, invoice_in, iter, report>>
    /\ UNCHANGED home_vars

\* loop body: "if not po_number: continue"
SkipRow ==
    /\ pc = "loop"
    /\ i <= Len(po_df.rows)
    /\ ~Truthy(PoNumberAt(i))
    /\ iter' = Append(iter, [entries |-> <<>>, inv |-> 0])
    /\ i' = i + 1
    /\ UNCHANGED <<po_df, invoice_df, po_in, invoice_in, pc, discrepancies, report>>
    /\ UNCHANGED home_vars

\* loop body: invoice_df.get('po number') is None, the comparison gives False
\* and invoice_df[False] raises KeyError
RaiseKeyError ==
    /\ pc = "loop"
    /\ i <= Len(po_df.rows)
    /\ Truthy(PoNumberAt(i))
    /\ ~HasColumn(invoice_df, "po number")
    /\ pc' = "raised"
    /\ UNCHANGED <<po_df, invoice_df, po_in, invoice_in, i, discrepancies, iter, report>>
    /\ UNCHANGED home_vars

\* loop body: matched.empty
NoMatchingInvoice ==
    /\ pc = "loop"
    /\ i <= Len(po_df.rows)
    /\ Truthy(PoNumberAt(i))
    /\ HasColumn(invoice_df, "po number")
    /\ MatchedRows(invoice_df, PoNumberAt(i)) = {}
    /\ discrepancies' = Append(discrepancies, NoMatchEntry(PoNumberAt(i)))
    /\ iter' = Append(iter, [entries |-> <<NoMatchEntry(PoNumberAt(i))>>, inv |-> 0])
    /\ i' = i + 1
    /\ UNCHANGED <<po_df, invoice_df, po_in, invoice_in, pc, report>>
    /\ UNCHANGED home_vars

\* loop body: inv = matched.iloc[0] and the loop over the compared columns
CompareFields ==
    /\ pc = "loop"
    /\ i <= Len(po_df.rows)
    /\ Truthy(PoNumberAt(i))
    /\ HasColumn(invoice_df, "po number")
    /\ MatchedRows(invoice_df, PoNumberAt(i)) # {}
    /\ LET r == FirstMatched(invoice_df, PoNumberAt(i))
           new == FieldDiffs(po_df.rows[i], invoice_df.rows[r], PoNumberAt(i), 1)
       IN  /\ discrepancies' = discrepancies \o new
           /\ iter' = Append(iter, [entries |-> new, inv |-> r])
    /\ i' = i + 1
    /\ UNCHANGED <<po_df, invoice_df, po_in, invoice_in, pc, report>>
    /\ UNCHANGED home_vars

\* the return statement, once iterrows() is exhausted
Return ==
    /\ pc = "loop"
    /\ i > Len(po_df.rows)
    /\ report' = Report(discrepancies)
    /\ pc' = "done"
    /\ UNCHANGED <<po_df, invoice_df, po_in, invoice_in, i, discrepancies, iter>>
    /\ UNCHANGED home_vars

----------------------------------------------------------------------------
(* Input tables *)

SeqsUpTo(S, n) == UNION {[1..k -> S] : k \in 0..n}

Frame(cols, rows) == [columns |-> cols, rows |-> rows]

\* po number cells: a text, the empty text, the number zero, a blank cell
KeyValues == {Str("A"), Str(""), Num(0), NaN}

\* tables with a po number and a vendor column, up to MaxRows rows, the po
\* number cells drawn from keys
MatchTables(keys) ==
    {Frame(<<Str("po number"), Str("vendor")>>, r) :
        r \in SeqsUpTo({<<k, v>> : k \in keys, v \in {Str("x"), Str("y")}}, MaxRows)}

PoTables == MatchTables(KeyValues)

InvoiceTables == MatchTables(KeyValues \ {Str("")})

\* structurally deficient tables: the empty table, a table without po number
DeficientTables ==
    {Frame(<<>>, <<>>)} \cup {Frame(<<Str("vendor")>>, r) : r \in SeqsUpTo({<<Str("x")>>}, MaxRows)}

FieldColumns ==
    { <<Str("po number")>>,
      <<Str("po number"), Str("vendor")>>,
      <<Str("po number"), Str("vendor"), Str("total amount")>>,
      <<Str("po number"), Str("currency"), Str("invoice number")>> }

\* cells of the compared columns: two texts, the empty text, a blank cell
FieldValues == {Str("x"), Str("y"), Str(""), NaN}

\* one-row tables for po number "A" over the column sets of FieldColumns
FieldTables ==
    UNION { {Frame(cols, << <<Str("A")>> \o f >>) : f \in [1..(Len(cols) - 1) -> FieldValues]} :
              cols \in FieldColumns }

\* column labels of the tables whose headers vary in spelling and alias
HeaderUniverse ==
    {Str("po number"), Str("PO Number"), Str("po id"), Str("vendor"), Str("supplier"),
     Str("amount"), Str("total")}

\* sequences of at most n distinct labels (a DataFrame read by read_excel has
\* no two equal labels)
HeaderTuples(n) ==
    {h \in SeqsUpTo(HeaderUniverse, n) : \A a, b \in DOMAIN h : a # b => h[a] # h[b]}

Letters == <<Str("A"), Str("B"), Str("C"), Str("D")>>

\* a row of k cells whose neighbouring cells differ
LetterRow(k, shift) == [c \in 1..k |-> Letters[((c + shift) % Len(Letters)) + 1]]

HeaderTables ==
    UNION { {Frame(cols, r) :
                r \in IF cols = <<>> THEN {<<>>}
                      ELSE SeqsUpTo({LetterRow(Len(cols), s) : s \in 0..1}, MaxRows)} :
              cols \in HeaderTuples(MaxCols) }

\* the Invoice tables paired with HeaderTables
HeaderInvoices ==
    { Frame(<<>>, <<>>),
      Frame(<<Str("PO Number"), Str("Supplier")>>, << <<Str("A"), Str("B")>> >>),
      Frame(<<Str("po id"), Str("supplier")>>, << <<Str("B"), Str("C")>>, <<Str("B"), Str("A")>> >>) }

----------------------------------------------------------------------------
(* find_discrepancies called on two tables *)

InitCall(po, inv) ==
    /\ po_df = po /\ po_in = po
    /\ invoice_df = inv /\ invoice_in = inv
    /\ pc = "normalize_po"
    /\ i = 0
    /\ discrepancies = <<>>
    /\ iter = <<>>
    /\ report = <<>>
    /\ h_pc = "none"
    /\ request = [method |-> "NONE"]
    /\ error = "None"
    /\ excel_filename = "None"
    /\ pdf_filename = "None"
    /\ files = {}
    /\ response = [rendered |-> FALSE, error |-> FALSE, links |-> FALSE]

Init ==
    \/ \E po \in PoTables \cup DeficientTables, inv \in InvoiceTables \cup DeficientTables :
           InitCall(po, inv)
    \/ \E po, inv \in FieldTables : InitCall(po, inv)

InitHeaders ==
    \E po \in HeaderTables, inv \in HeaderInvoices : InitCall(po, inv)

Next ==
    \/ NormalizePO
    \/ NormalizeInvoice
    \/ SkipRow
    \/ RaiseKeyError
    \/ NoMatchingInvoice
    \/ CompareFields
    \/ Return

\* find_discrepancies on tables with canonical headers and varied cells
Spec == Init /\ [][Next]_vars

\* find_discrepancies on tables with varied headers
SpecHeaders == InitHeaders /\ [][Next]_vars

----------------------------------------------------------------------------
(* home(): one request *)

\* uploaded file names: none selected, spreadsheets, a PDF, two refused names
FileNames == {"", "po.xlsx", "inv.PDF", "notes.txt", "README"}

\* filename.rsplit('.', 1)[1], "" when the name has no dot
Extension(filename) ==
    CASE filename = "po.xlsx" -> "xlsx"
      [] filename = "inv.PDF" -> "PDF"
      [] filename = "notes.txt" -> "txt"
      [] OTHER -> ""

ALLOWED_EXTENSIONS == {"pdf", "xlsx", "xls"}

\* str.lower() on the extensions of the model
LowerExt(e) == IF e = "PDF" THEN "pdf" ELSE e

allowed_file(filename) ==
    /\ filename \in {"po.xlsx", "inv.PDF", "notes.txt"}
    /\ LowerExt(Extension(filename)) \in ALLOWED_EXTENSIONS

\* what pd.read_excel can return: the first row of the sheet gives the labels
ExcelTables ==
    {Frame(<<>>, <<>>)}
    \cup {Frame(<<Str("po number"), Str("vendor")>>, << <<k, v>> >>) :
            k \in {Str("A"), Num(0)}, v \in {Str("x"), Str("y")}}

\* what read_pdf can return: the labels are the integers 0, 1, ..., the cells
\* the tokens of the text lines
PdfTables ==
    { Frame(<<>>, <<>>),
      Frame(<<Num(0), Num(1)>>, << <<Str("po"), Str("number")>>, <<Str("A"), Str("x")>> >>) }

\* the tables extract_data(path) can return for an upload of that name
extract_data(filename) ==
    IF LowerExt(Extension(filename)) \in {"xls", "xlsx"} THEN ExcelTables
    ELSE IF LowerExt(Extension(filename)) = "pdf" THEN PdfTables
    ELSE {}

Requests ==
    {[method |-> "GET", has_po |-> FALSE, has_invoice |-> FALSE, po |-> "", inv |-> ""]}
    \cup [method : {"POST"}, has_po : BOOLEAN, has_invoice : BOOLEAN, po : FileNames, inv : FileNames]

InitHome ==
    /\ request \in Requests
    /\ h_pc = "start"
    /\ error = "None"
    /\ excel_filename = "None"
    /\ pdf_filename = "None"
    /\ files = {}
    /\ response = [rendered |-> FALSE, error |-> FALSE, links |-> FALSE]
    /\ po_df = Frame(<<>>, <<>>) /\ po_in = Frame(<<>>, <<>>)
    /\ invoice_df = Frame(<<>>, <<>>) /\ invoice_in = Frame(<<>>, <<>>)
    /\ pc = "idle"
    /\ i = 0
    /\ discrepancies = <<>>
    /\ iter = <<>>
    /\ report = <<>>

\* the except clause: error = str(e), then the template is rendered
Except(message) ==
    /\ error' = message
    /\ h_pc' = "render"

\* the checks of the request; abort() raises, and the except clause catches it
Validate ==
    /\ h_pc = "start"
    /\ IF request.method # "POST" THEN h_pc' = "render" /\ error' = error
       ELSE IF ~request.has_po \/ ~request.has_invoice THEN Except("400 Bad Request: Missing file upload")
       ELSE IF request.po = "" \/ request.inv = "" THEN Except("400 Bad Request: No file selected")
       ELSE IF ~allowed_file(request.po) \/ ~allowed_file(request.inv)
            THEN Except("400 Bad Request: Unsupported file type")
       ELSE h_pc' = "save" /\ error' = error
    /\ UNCHANGED <<request, excel_filename, pdf_filename, files, response>>
    /\ UNCHANGED engine_vars

\* po.save(po_path); inv.save(inv_path): either may raise
SaveUploads ==
    /\ h_pc = "save"
    /\ \/ h_pc' = "extract_po" /\ error' = error
       \/ Except("OSError")
    /\ UNCHANGED <<request, excel_filename, pdf_filename, files, response>>
    /\ UNCHANGED engine_vars

\* po_df = extract_data(po_path): a table, or the reader raises
ExtractPO ==
    /\ h_pc = "extract_po"
    /\ \/ /\ \E t \in extract_data(request.po) : po_df' = t /\ po_in' = t
          /\ h_pc' = "extract_inv" /\ error' = error
       \/ Except("read error") /\ UNCHANGED <<po_df, po_in>>
    /\ UNCHANGED <<request, excel_filename, pdf_filename, files, response>>
    /\ UNCHANGED <<invoice_df, invoice_in, pc, i, discrepancies, iter, report>>

\* inv_df = extract_data(inv_path): a table, or the reader raises
ExtractInvoice ==
    /\ h_pc = "extract_inv"
    /\ \/ /\ \E t \in extract_data(request.inv) : invoice_df' = t /\ invoice_in' = t
          /\ h_pc' = "call" /\ error' = error
       \/ Except("read error") /\ UNCHANGED <<invoice_df, invoice_in>>
    /\ UNCHANGED <<request, excel_filename, pdf_filename, files, response>>
    /\ UNCHANGED <<po_df, po_in, pc, i, discrepancies, iter, report>>

\* find_discrepancies(po_df, inv_df) is entered
CallFind ==
    /\ h_pc = "call"
    /\ pc = "idle"
    /\ pc' = "normalize_po"
    /\ h_pc' = "find"
    /\ UNCHANGED <<request, error, excel_filename, pdf_filename, files, response>>
    /\ UNCHANGED <<po_df, invoice_df, po_in, invoice_in, i, discrepancies, iter, report>>

\* find_discrepancies returned: the two report names are assigned
FindReturned ==
    /\ h_pc = "find"
    /\ pc = "done"
    /\ excel_filename' = "report_uid.xlsx"
    /\ pdf_filename' = "report_uid.pdf"
    /\ h_pc' = "save_excel"
    /\ UNCHANGED <<request, error, files, response>>
    /\ UNCHANGED engine_vars

\* find_discrepancies raised: the except clause catches the KeyError
FindRaised ==
    /\ h_pc = "find"
    /\ pc = "raised"
    /\ Except("False")
    /\ UNCHANGED <<request, excel_filename, pdf_filename, files, response>>
    /\ UNCHANGED engine_vars

\* save_excel_with_watermark(discrepancies, excel_path): the file is written,
\* or the call raises
save_excel_with_watermark ==
    /\ h_pc = "save_excel"
    /\ \/ files' = files \cup {excel_filename} /\ h_pc' = "save_pdf" /\ error' = error
       \/ Except("OSError") /\ files' = files
    /\ UNCHANGED <<request, excel_filename, pdf_filename, response>>
    /\ UNCHANGED engine_vars

\* add_pdf_watermark_from_df(discrepancies, pdf_path): the file is written, or
\* the call raises
add_pdf_watermark_from_df ==
    /\ h_pc = "save_pdf"
    /\ \/ files' = files \cup {pdf_filename} /\ h_pc' = "render" /\ error' = error
       \/ Except("OSError") /\ files' = files
    /\ UNCHANGED <<request, excel_filename, pdf_filename, response>>
    /\ UNCHANGED engine_vars

\* render_template_string(HTML, error=..., excel_filename=..., pdf_filename=...)
\* "{% if error %}" shows the error, "{% if excel_filename and pdf_filename %}"
\* the two download links
Render ==
    /\ h_pc = "render"
    /\ response' = [rendered |-> TRUE,
                    error |-> (error # "None"),
                    links |-> (excel_filename # "None" /\ pdf_filename # "None")]
    /\ h_pc' = "done"
    /\ UNCHANGED <<request, error, excel_filename, pdf_filename, files>>
    /\ UNCHANGED engine_vars

home ==
    \/ Validate
    \/ SaveUploads
    \/ ExtractPO
    \/ ExtractInvoice
    \/ CallFind
    \/ Next
    \/ FindReturned
    \/ FindRaised
    \/ save_excel_with_watermark
    \/ add_pdf_watermark_from_df
    \/ Render

\* one request served by home()
SpecHome == InitHome /\ [][home]_vars

----------------------------------------------------------------------------
(* Notions the properties are stated with *)

\* the canonical field a header is an alias of when compared without regard
\* to letter case, "" when it is an alias of none
AliasField(h) ==
    IF \E m \in DOMAIN COLUMN_MAP : Lower(PyStr(h)) \in Range(COLUMN_MAP[m].variants)
    THEN COLUMN_MAP[CHOOSE m \in DOMAIN COLUMN_MAP :
                        Lower(PyStr(h)) \in Range(COLUMN_MAP[m].variants)].std
    ELSE ""

\* the columns of table df whose header is an alias of field f
AliasColumns(df, f) == {k \in DOMAIN df.columns : AliasField(df.columns[k]) = f}

CanonicalFields == {COLUMN_MAP[m].std : m \in DOMAIN COLUMN_MAP}

\* normalize_columns(po_df) has returned
PoNormalized == pc \in {"normalize_invoice", "loop", "done", "raised"}

\* a PO number that is missing (no such column) or empty (an empty cell:
\* blank in the sheet, or the empty text)
IsEmpty(v) == v = None \/ v = NaN \/ v = Str("")

\* the Invoice rows whose PO number is the value pn
EqualRows(pn) ==
    {r \in DOMAIN invoice_df.rows : Get(invoice_df, invoice_df.rows[r], "po number") = pn}

----------------------------------------------------------------------------
(* C1 *)

\* C1: alias resolution is case-insensitive: for every header of the PO table
\* that is, lower-cased, an alias of a canonical field (and the only such
\* header of the table), after normalize_columns every row gives that column's
\* value under the canonical field name.
C1_CaseInsensitiveAlias ==
    PoNormalized =>
        \A k \in DOMAIN po_in.columns :
            LET f == AliasField(po_in.columns[k])
            IN  (f # "" /\ AliasColumns(po_in, f) = {k}) =>
                    /\ HasColumn(po_df, f)
                    /\ \A r \in DOMAIN po_df.rows : Get(po_df, po_df.rows[r], f) = po_in.rows[r][k]

----------------------------------------------------------------------------
(* C2 *)

\* C2: find_discrepancies never raises, whatever the two tables are.
C2_NeverRaises == pc # "raised"

----------------------------------------------------------------------------
(* C3 *)

\* C3: the returned report has at least one row; it is exactly the single
\* sentinel row if and only if no PO record produced a discrepancy entry, and
\* the sentinel never appears beside a discrepancy entry.
C3_ReportNeverEmpty ==
    pc = "done" =>
        /\ Len(report) >= 1
        /\ (report = <<Sentinel>>) <=> (\A k \in DOMAIN iter : iter[k].entries = <<>>)
        /\ \A j \in DOMAIN report : report[j] = Sentinel => Len(report) = 1
        /\ (\E k \in DOMAIN iter : iter[k].entries # <<>>) => report = discrepancies

\* a returned report that is the sentinel alone although a PO record was
\* matched and compared
C3_Witness ==
    /\ pc = "done"
    /\ report = <<Sentinel>>
    /\ \E k \in DOMAIN iter : iter[k].inv # 0

----------------------------------------------------------------------------
(* C4 *)

\* C4: a PO record whose PO number is missing or empty produces no entry.
C4_EmptyPoNumberExcluded ==
    \A k \in DOMAIN iter : IsEmpty(PoNumberAt(k)) => iter[k].entries = <<>>

----------------------------------------------------------------------------
(* C5 *)

\* C5: a PO record with a non-empty PO number that some Invoice record
\* shares is compared with the first such Invoice record in table order.
C5_FirstMatch ==
    \A k \in DOMAIN iter :
        (~IsEmpty(PoNumberAt(k)) /\ EqualRows(PoNumberAt(k)) # {}) =>
            /\ iter[k].inv \in EqualRows(PoNumberAt(k))
            /\ \A r \in EqualRows(PoNumberAt(k)) : iter[k].inv <= r

----------------------------------------------------------------------------
(* C6 *)

\* C6: once find_discrepancies has ended, every PO record with a non-empty
\* PO number that no Invoice record shares has exactly one entry in the
\* report, its 'No matching invoice' entry.
C6_UnmatchedReportedOnce ==
    pc \in {"done", "raised"} =>
        \A k \in DOMAIN po_df.rows :
            (~IsEmpty(PoNumberAt(k)) /\ EqualRows(PoNumberAt(k)) = {}) =>
                /\ pc = "done"
                /\ k \in DOMAIN iter
                /\ iter[k].entries = <<NoMatchEntry(PoNumberAt(k))>>

----------------------------------------------------------------------------
(* C7 *)

\* the entries C7 expects for PO row k matched with Invoice row r, from
\* compared column number c on: one per column whose two values differ, a
\* missing field differing from every present value
RECURSIVE ExpectedDiffs(_, _, _)
ExpectedDiffs(k, r, c) ==
    IF c > Len(CompareCols) THEN <<>>
    ELSE LET col == CompareCols[c]
             pv == Get(po_df, po_df.rows[k], col)
             iv == Get(invoice_df, invoice_df.rows[r], col)
         IN  (IF pv # iv THEN <<FieldEntry(PoNumberAt(k), col, pv, iv)>> ELSE <<>>)
             \o ExpectedDiffs(k, r, c + 1)

\* C7: a matched PO record emits exactly one entry per compared column whose
\* two values differ, in the order total amount, vendor, quantity, currency,
\* and nothing for a column equal on both sides.
C7_FieldEntries ==
    \A k \in DOMAIN iter :
        iter[k].inv # 0 => iter[k].entries = ExpectedDiffs(k, iter[k].inv, 1)

----------------------------------------------------------------------------
(* C8 *)

\* C8: the tables handed to find_discrepancies are left unchanged, headers
\* and cells.
C8_InputsUnchanged == po_df = po_in /\ invoice_df = invoice_in

----------------------------------------------------------------------------
(* C9 *)

\* C9 as stated, for headers written in lower case: when exactly two headers
\* of the PO table alias the same canonical field, every row reads for that
\* field the value under the later of the two headers.
C9_LastWriteWins ==
    PoNormalized =>
        \A f \in CanonicalFields : \A a, b \in AliasColumns(po_in, f) :
            (/\ a < b
             /\ AliasColumns(po_in, f) = {a, b}
             /\ \A c \in {a, b} : Lower(PyStr(po_in.columns[c])) = PyStr(po_in.columns[c])) =>
                \A r \in DOMAIN po_df.rows : Get(po_df, po_df.rows[r], f) = po_in.rows[r][b]

\* the alias of field f that decides a collision in table df: of the aliases
\* that some header of df spells (in any letter case), the one listed first
\* in COLUMN_MAP
PriorityAlias(df, f) ==
    LET vs == (CHOOSE m \in {COLUMN_MAP[n] : n \in DOMAIN COLUMN_MAP} : m.std = f).variants
        spelled == {k \in DOMAIN vs : \E c \in AliasColumns(df, f) : Lower(PyStr(df.columns[c])) = vs[k]}
    IN  vs[CHOOSE k \in spelled : \A j \in spelled : k <= j]

\* C9 amended: when two or more headers of the PO table alias the same
\* canonical field, every row reads for that field the value under the header
\* that is exactly the priority alias (header order plays no part), and reads
\* nothing when no header is spelled exactly so.
C9_AliasPriorityWins ==
    PoNormalized =>
        \A f \in CanonicalFields :
            Cardinality(AliasColumns(po_in, f)) >= 2 =>
                \A r \in DOMAIN po_df.rows :
                    IF \E k \in DOMAIN po_in.columns : po_in.columns[k] = Str(PriorityAlias(po_in, f))
                    THEN Get(po_df, po_df.rows[r], f) =
                            po_in.rows[r][CHOOSE k \in DOMAIN po_in.columns :
                                              po_in.columns[k] = Str(PriorityAlias(po_in, f))]
                    ELSE Get(po_df, po_df.rows[r], f) = None

\* the PO table has the headers vendor, supplier in this order, it has been
\* normalized, and a row reads the value under vendor, the earlier header
C9_Witness ==
    /\ PoNormalized
    /\ po_in.columns = <<Str("vendor"), Str("supplier")>>
    /\ Len(po_df.rows) >= 1
    /\ Get(po_df, po_df.rows[1], "vendor") = po_in.rows[1][1]

----------------------------------------------------------------------------
(* C10 *)

\* C10: the rendered response offers the download links only if both report
\* files were written for the request, and a response that shows an error
\* offers no links.
C10_LinksOnlyWithReports ==
    response.rendered =>
        /\ response.links => {excel_filename, pdf_filename} \subseteq files
        /\ response.error => ~response.links

====
